---- MODULE Spec2Model ----
(***************************************************************************)
(* Verification model of debtdrone-cli: the command-line orchestrator      *)
(* (cmd/debtdrone), the quality gate, the report sink, the complexity      *)
(* analyzer's repository walk and the per-language severity rules.         *)
(***************************************************************************)
EXTENDS Integers, Sequences, FiniteSets, TLC

VARIABLES
    pc,            \* position of the running program
    versionFlag,   \* --version
    failOn,        \* --fail-on
    outputFormat,  \* --output
    gitInstalled,  \* exec.LookPath("git") succeeds
    trivyInstalled,\* exec.LookPath("trivy") succeeds
    absOK,         \* filepath.Abs succeeds
    pathExists,    \* os.Stat(absPath) does not report IsNotExist
    idx,           \* index into analyzersList of the next analyzer to run
    ran,           \* per analyzer run so far: [name, err, issues]
    allIssues,     \* main's allIssues
    bar,           \* progress bar: -1 when nil, else the count added
    stdout,        \* what was written to standard output, in order
    stderr,        \* what was written to the error stream, in order
    reports,       \* number of calls of printReport
    gateResult,    \* "unset", else "fail" or "pass": what shouldFail returned
    exitCode,      \* -1 while running, else the process exit code
    fs,            \* the directory tree at the target path (root entry)
    complexityStore, \* InMemoryComplexityStore.Metrics
    ctxDone,       \* the context handed to Analyze has been cancelled
    job,           \* one AnalyzeFile call: [lang, path, content]
    fileResult,    \* what that call returned: [done, metrics, err]
    ast,           \* a parse tree and the node a metric traversal starts at
    cursor,        \* the tree cursor of that traversal and the nodes visited
    jobQueue,      \* Engine.jobQueue: the jobs buffered in the channel
    quit,          \* Engine.quit has been closed
    workerState,   \* per worker goroutine: where it is and the job it holds
    runLog,        \* per job: what processJob did for it, in order
    submitLog,     \* per SubmitJob call so far: the job, the queue length it met, its outcome
    stopState      \* the caller of Start and Stop: "new", "started", "stopping", "stopped"

vars == <<pc, versionFlag, failOn, outputFormat, gitInstalled, trivyInstalled,
          absOK, pathExists, idx, ran, allIssues, bar, stdout, stderr,
          reports, gateResult, exitCode, fs, complexityStore, ctxDone, job,
          fileResult, ast, cursor, jobQueue, quit, workerState, runLog,
          submitLog, stopState>>

\* the state of the traversal and of the engine, which the command-line run
\* and the analyzers never touch
cursorVars == <<ast, cursor>>
engineVars == <<jobQueue, quit, workerState, runLog, submitLog, stopState>>

(***************************************************************************)
(* Bounds                                                                  *)
(***************************************************************************)
MaxFuncs == 1       \* most functions in one source file
MaxFindings == 1    \* most findings in one Trivy report
MaxGateIssues == 3  \* longest issue list handed to the gate on its own

(***************************************************************************)
(* Helpers                                                                 *)
(***************************************************************************)
SeqsUpTo(S, n) == UNION {[1..k -> S] : k \in 0..n}

RECURSIVE Concat(_)
Concat(ss) == IF ss = <<>> THEN <<>> ELSE Head(ss) \o Concat(Tail(ss))

(***************************************************************************)
(* Quality gate: shouldFail                                                *)
(***************************************************************************)
severityMap ==
    [s \in {"info", "low", "medium", "high", "critical"} |->
        CASE s = "info" -> 0
          [] s = "low" -> 1
          [] s = "medium" -> 2
          [] s = "high" -> 3
          [] s = "critical" -> 4]

DefaultThresholdVal == 3

\* an unknown threshold taken as the lowest rank
thresholdValOf_lowest(threshold) ==
    IF threshold \in DOMAIN severityMap THEN severityMap[threshold]
    ELSE 0

thresholdValOf(threshold) ==
    IF threshold \in DOMAIN severityMap THEN severityMap[threshold]
    ELSE DefaultThresholdVal

\* gateLoop comparing with > where the code compares with >=
RECURSIVE gateLoop_strict(_, _)
gateLoop_strict(issues, thresholdVal) ==
    IF issues = <<>> THEN FALSE
    ELSE IF /\ Head(issues).Severity \in DOMAIN severityMap
            /\ severityMap[Head(issues).Severity] > thresholdVal
         THEN TRUE
         ELSE gateLoop_strict(Tail(issues), thresholdVal)

\* the loop over issues: returns at the first issue whose rank reaches the threshold
RECURSIVE gateLoop(_, _)
gateLoop(issues, thresholdVal) ==
    IF issues = <<>> THEN FALSE
    ELSE IF /\ Head(issues).Severity \in DOMAIN severityMap
            /\ severityMap[Head(issues).Severity] >= thresholdVal
         THEN TRUE
         ELSE gateLoop(Tail(issues), thresholdVal)

\* shouldFail without the early return for "none"
shouldFail_noNone(issues, threshold) ==
    gateLoop(issues, thresholdValOf(threshold))

shouldFail(issues, threshold) ==
    IF threshold = "none" THEN FALSE
    ELSE gateLoop(issues, thresholdValOf(threshold))

(***************************************************************************)
(* Severity rules                                                          *)
(***************************************************************************)
\* models.DefaultComplexityThresholds
DefaultComplexityThresholds ==
    [CyclomaticHigh |-> 10, CyclomaticCritical |-> 20,
     CognitiveHigh |-> 15, CognitiveCritical |-> 25,
     NestingWarning |-> 4, NestingCritical |-> 6,
     ParameterWarning |-> 5, ParameterCritical |-> 7,
     LinesOfCodeWarning |-> 150, LinesOfCodeCritical |-> 300]

\* ComplexityThresholds.DetermineSeverity (used by the Go analyzer)
DetermineSeverity(t, cyclomatic, cognitive, nesting, params) ==
    IF \/ cyclomatic > t.CyclomaticCritical
       \/ nesting > t.NestingCritical + 1
       \/ cognitive > t.CognitiveCritical
    THEN "critical"
    ELSE IF \/ cyclomatic > t.CyclomaticHigh
            \/ nesting > t.NestingWarning + 1
            \/ params > t.ParameterCritical
            \/ cognitive > t.CognitiveHigh
    THEN "high"
    ELSE IF \/ cyclomatic > t.CyclomaticHigh \div 2
            \/ nesting > t.NestingWarning
            \/ params > t.ParameterWarning
            \/ cognitive > t.CognitiveHigh \div 2
    THEN "medium"
    ELSE "low"

\* classifyComplexitySeverity (used by every other language analyzer)
classifyComplexitySeverity(cyclomatic, cognitive, nesting) ==
    IF cyclomatic > 20 \/ cognitive > 25 \/ nesting > 5 THEN "critical"
    ELSE IF cyclomatic > 15 \/ cognitive > 20 \/ nesting > 4 THEN "high"
    ELSE IF cyclomatic > 10 \/ cognitive > 15 \/ nesting > 3 THEN "medium"
    ELSE "low"

(***************************************************************************)
(* Language analyzers and the factory                                      *)
(***************************************************************************)
Languages == {"Go", "JavaScript", "TypeScript", "Python", "Java", "Kotlin",
              "Ruby", "Rust", "Swift", "PHP", "C#", "C/C++"}

\* what AnalyzeFile does when the parser reports a failure:
\* "error" = return nil and the error, "empty" = return no metrics and no error
ParseFailure(lang) ==
    CASE lang = "JavaScript" -> "empty"   \* parser.Parse returned nil
      [] lang = "Python" -> "empty"       \* findPythonFunctions drops the error
      [] lang = "TypeScript" -> "empty"
      [] lang = "C#" -> "empty"
      [] OTHER -> "error"                 \* Go, Ruby, Rust, Java, Kotlin, Swift, PHP, C/C++

\* the severity a language analyzer gives a function
SeverityOf(lang, fn) ==
    IF lang = "Go"
    THEN DetermineSeverity(DefaultComplexityThresholds, fn.C, fn.K, fn.N, fn.P)
    ELSE classifyComplexitySeverity(fn.C, fn.K, fn.N)

\* models.CalculateTechnicalDebt
CalculateTechnicalDebt(cyclomatic, cognitive, nesting, params, loc) ==
    LET debtMinutes ==
          (IF cyclomatic > 20 THEN (cyclomatic - 20) * 15
           ELSE IF cyclomatic > 10 THEN (cyclomatic - 10) * 10
           ELSE IF cyclomatic > 5 THEN (cyclomatic - 5) * 5
           ELSE 0)
          + (IF cognitive > 15 THEN (cognitive - 15) * 8 ELSE 0)
          + (IF nesting > 5 THEN (nesting - 5) * 20
             ELSE IF nesting > 3 THEN (nesting - 3) * 10
             ELSE 0)
          + (IF params > 7 THEN (params - 7) * 15
             ELSE IF params > 5 THEN (params - 5) * 10
             ELSE 0)
          + (IF loc > 300 THEN ((loc - 300) \div 50) * 30
             ELSE IF loc > 150 THEN ((loc - 150) \div 50) * 15
             ELSE 0)
    IN IF debtMinutes < 0 THEN 0 ELSE debtMinutes

\* Go's integer division, which truncates toward zero
GoDiv(a, b) == IF a >= 0 THEN a \div b ELSE -((-a) \div b)

\* estimateTechnicalDebt and its per-language copies; tax is what the Rust and
\* C/C++ copies add
estimateTechnicalDebt(cyclomatic, cognitive, loc, tax) ==
    LET baseMinutes == 5
        complexityMinutes == IF (cyclomatic - 10) * 2 < 0 THEN 0 ELSE (cyclomatic - 10) * 2
        cognitiveMinutes == IF (cognitive - 15) * 1 < 0 THEN 0 ELSE (cognitive - 15) * 1
        locMinutes == IF GoDiv(loc - 30, 5) < 0 THEN 0 ELSE GoDiv(loc - 30, 5)
    IN baseMinutes + complexityMinutes + cognitiveMinutes + locMinutes + tax

\* strings.Count(text, "\n") of the function node's text and of its body block
NodeNewlines(fn) == fn.endLine - fn.startLine
BodyNewlines(fn) == fn.endLine - fn.bodyLine

\* the LinesOfCode a language analyzer stores; 0 where the field is never set
LinesOfCodeOf(lang, fn) ==
    CASE lang = "Go" -> fn.endLine - fn.startLine + 1
      [] lang = "Ruby" -> NodeNewlines(fn) + 1
      [] lang \in {"PHP", "Kotlin", "Rust", "Swift", "C/C++"} -> BodyNewlines(fn) + 1
      [] OTHER -> 0

\* the TechnicalDebtMinutes a language analyzer stores; 0 where never set
TechnicalDebtOf(lang, fn, loc) ==
    CASE lang = "Go" -> CalculateTechnicalDebt(fn.C, fn.K, fn.N, fn.P, loc)
      [] lang \in {"Ruby", "Kotlin", "Swift"} -> estimateTechnicalDebt(fn.C, fn.K, loc, 0)
      [] lang = "Rust" -> estimateTechnicalDebt(fn.C, fn.K, loc, 2)
      [] lang = "C/C++" -> estimateTechnicalDebt(fn.C, fn.K, loc, 3)
      [] OTHER -> 0

analyzeFunction(lang, filePath, fn) ==
    [ID |-> 0,
     FilePath |-> filePath,
     FunctionName |-> fn.name,
     StartLine |-> fn.startLine,
     EndLine |-> fn.endLine,
     CyclomaticComplexity |-> fn.C,
     CognitiveComplexity |-> fn.K,
     NestingDepth |-> fn.N,
     ParameterCount |-> fn.P,
     LinesOfCode |-> LinesOfCodeOf(lang, fn),
     Severity |-> SeverityOf(lang, fn),
     TechnicalDebtMinutes |-> TechnicalDebtOf(lang, fn, LinesOfCodeOf(lang, fn)),
     Language |-> lang]

\* what the language's parser makes of the content: a zero-byte file is no Go
\* source file (go/parser wants the package clause) and an empty tree or no
\* match for every other analyzer
ParseOutcome(lang, content) ==
    IF content.parse = "empty"
    THEN IF lang = "Go" THEN "fail" ELSE "ok"
    ELSE content.parse

\* Analyzer.AnalyzeFile: (metrics, err)
AnalyzeFile(lang, filePath, content) ==
    IF ParseOutcome(lang, content) = "fail"
    THEN [metrics |-> <<>>, err |-> (ParseFailure(lang) = "error")]
    ELSE [metrics |-> [i \in 1..Len(content.funcs) |->
                          analyzeFunction(lang, filePath, content.funcs[i])],
          err |-> FALSE]

\* strings.ToLower(filepath.Ext(name)) over the file names of the model
FileExt(name) ==
    CASE name = "a.go" -> ".go"
      [] name = "M.GO" -> ".GO"
      [] name = "b.rb" -> ".rb"
      [] name = "c.js" -> ".js"
      [] name = "d.txt" -> ".txt"
      [] OTHER -> ""

ToLower(s) == IF s = ".GO" THEN ".go" ELSE s

\* Factory.GetAnalyzer: the language for an extension, "" when unsupported
GetAnalyzer(name) ==
    LET ext == ToLower(FileExt(name)) IN
    CASE ext = ".go" -> "Go"
      [] ext \in {".js", ".jsx"} -> "JavaScript"
      [] ext \in {".ts", ".tsx"} -> "TypeScript"
      [] ext = ".py" -> "Python"
      [] ext = ".cs" -> "C#"
      [] ext = ".php" -> "PHP"
      [] ext = ".java" -> "Java"
      [] ext = ".rb" -> "Ruby"
      [] ext = ".rs" -> "Rust"
      [] ext \in {".kt", ".kts"} -> "Kotlin"
      [] ext = ".swift" -> "Swift"
      [] ext \in {".c", ".cpp", ".cc", ".cxx", ".c++", ".h", ".hpp", ".hxx", ".h++"} -> "C/C++"
      [] OTHER -> ""

supportedExts == {".go", ".js", ".jsx", ".ts", ".tsx", ".py", ".java", ".cs", ".php",
                  ".rb", ".rs", ".kt", ".kts", ".swift",
                  ".c", ".cpp", ".cc", ".cxx", ".c++", ".h", ".hpp", ".hxx", ".h++"}

IsSupported(name) == ToLower(FileExt(name)) \in supportedExts

(***************************************************************************)
(* The directory tree and filepath.Walk                                    *)
(***************************************************************************)
\* every entry name of the model, in the lexical (byte) order in which
\* filepath.Walk visits the names of one directory
NameOrder == <<".git", ".venv", "M.GO", "__pycache__", "a.go", "b.rb", "c.js",
               "d.txt", "lib", "node_modules", "src", "vendor", "venv">>

NameRank(n) == CHOOSE i \in 1..Len(NameOrder) : NameOrder[i] = n

\* readDirNames: the entries of a directory sorted by name
RECURSIVE SortByName(_)
SortByName(S) ==
    IF S = {} THEN <<>>
    ELSE LET first == CHOOSE e \in S : \A o \in S : NameRank(e.name) <= NameRank(o.name)
         IN <<first>> \o SortByName(S \ {first})

Base(path) == path[Len(path)]

\* filepath.Rel(repo.Path, path): the path below the root
Rel(path) == SubSeq(path, 2, Len(path))

\* the pruned names with .venv forgotten
PrunedDirs_short == {".git", "node_modules", "vendor", "venv", "__pycache__"}

PrunedDirs == {".git", "node_modules", "vendor", ".venv", "venv", "__pycache__"}

\* metrics[i].ID = uuid.New(): identifiers no earlier metric carries, counted
\* on from the number handed out so far
tagMetrics(metrics, uuids) ==
    [i \in 1..Len(metrics) |-> [metrics[i] EXCEPT !.ID = uuids + i]]

\* the end of the callback returning the analysis error to Walk instead of nil
collectMetrics_abort(r, acc) ==
    IF r.err
    THEN [ret |-> "err", acc |-> [acc EXCEPT !.logs = Append(@, "analyze_failed")]]
    ELSE [ret |-> "nil",
          acc |-> [acc EXCEPT !.metrics = acc.metrics \o tagMetrics(r.metrics, acc.uuids),
                              !.uuids = @ + Len(r.metrics)]]

\* the end of the callback: what it does with AnalyzeFile's (metrics, err)
collectMetrics(r, acc) ==
    IF r.err
    THEN [ret |-> "nil", acc |-> [acc EXCEPT !.logs = Append(@, "analyze_failed")]]
    ELSE [ret |-> "nil",
          acc |-> [acc EXCEPT !.metrics = acc.metrics \o tagMetrics(r.metrics, acc.uuids),
                              !.uuids = @ + Len(r.metrics)]]

\* the callback returning the analysis error to Walk instead of nil
ComplexityWalkFn_abort(path, entry, err, acc) ==
    IF err THEN [ret |-> "err", acc |-> acc]
    ELSE IF entry.kind = "dir"
    THEN IF Base(path) \in PrunedDirs
         THEN [ret |-> "SkipDir", acc |-> acc]
         ELSE [ret |-> "nil", acc |-> acc]
    ELSE IF ~IsSupported(Base(path)) THEN [ret |-> "nil", acc |-> acc]
    ELSE IF entry.ioErr
    THEN [ret |-> "nil", acc |-> [acc EXCEPT !.logs = Append(@, "read_failed")]]
    ELSE IF GetAnalyzer(Base(path)) = "" THEN [ret |-> "nil", acc |-> acc]
    ELSE collectMetrics_abort(
             AnalyzeFile(GetAnalyzer(Base(path)), Rel(path), entry.content), acc)

\* the callback ComplexityAnalyzer.Analyze hands to filepath.Walk
ComplexityWalkFn(path, entry, err, acc) ==
    IF err THEN [ret |-> "err", acc |-> acc]
    ELSE IF entry.kind = "dir"
    THEN IF Base(path) \in PrunedDirs
         THEN [ret |-> "SkipDir", acc |-> acc]
         ELSE [ret |-> "nil", acc |-> acc]
    ELSE IF ~IsSupported(Base(path)) THEN [ret |-> "nil", acc |-> acc]
    ELSE IF entry.ioErr
    THEN [ret |-> "nil", acc |-> [acc EXCEPT !.logs = Append(@, "read_failed")]]
    ELSE IF GetAnalyzer(Base(path)) = "" THEN [ret |-> "nil", acc |-> acc]
    ELSE collectMetrics(
             AnalyzeFile(GetAnalyzer(Base(path)), Rel(path), entry.content), acc)

isCodeFile(ext) ==
    ext \in {".go", ".js", ".ts", ".tsx", ".jsx", ".py", ".java", ".cs", ".c",
             ".cpp", ".h", ".rb", ".php"}

\* the callback LineCounter.Analyze hands to filepath.Walk
LineCounterWalkFn(path, entry, err, acc) ==
    IF err THEN [ret |-> "err", acc |-> acc]
    ELSE IF entry.kind = "dir"
    THEN IF entry.name = ".git"
         THEN [ret |-> "SkipDir", acc |-> acc]
         ELSE [ret |-> "nil", acc |-> acc]
    ELSE IF ~isCodeFile(ToLower(FileExt(Base(path)))) THEN [ret |-> "nil", acc |-> acc]
    ELSE IF entry.ioErr THEN [ret |-> "nil", acc |-> acc]
    ELSE [ret |-> "nil",
          acc |-> [acc EXCEPT !.totalLines = @ + entry.content.newlines,
                              !.fileCount = @ + 1]]

WalkFn(who, path, entry, err, acc) ==
    IF who = "complexity" THEN ComplexityWalkFn(path, entry, err, acc)
    ELSE LineCounterWalkFn(path, entry, err, acc)

\* filepath.walk: the callback on the entry, then its children in name order
RECURSIVE walk(_, _, _, _)
RECURSIVE walkNames(_, _, _, _)
RECURSIVE walkDir(_, _, _, _)
RECURSIVE walkNext(_, _, _, _, _)
walk(who, path, entry, acc) ==
    walkDir(who, path, entry, WalkFn(who, path, entry, entry.kind = "dir" /\ entry.ioErr, acc))

\* walk after the callback returned r1 for the entry itself
walkDir(who, path, entry, r1) ==
    IF entry.kind # "dir" \/ entry.ioErr \/ r1.ret # "nil" THEN r1
    ELSE walkNames(who, path, SortByName(entry.children), r1.acc)

walkNames(who, path, entries, acc) ==
    IF entries = <<>> THEN [ret |-> "nil", acc |-> acc]
    ELSE walkNext(who, path, entries, Head(entries),
                  IF Head(entries).statErr
                  THEN WalkFn(who, Append(path, Head(entries).name), Head(entries), TRUE, acc)
                  ELSE walk(who, Append(path, Head(entries).name), Head(entries), acc))

\* the loop over a directory's names after entry e gave r
walkNext(who, path, entries, e, r) ==
    IF e.statErr
    THEN IF r.ret # "nil" /\ r.ret # "SkipDir" THEN r
         ELSE walkNames(who, path, Tail(entries), r.acc)
    ELSE IF r.ret # "nil" /\ (e.kind # "dir" \/ r.ret # "SkipDir") THEN r
         ELSE walkNames(who, path, Tail(entries), r.acc)

\* Walk turning a SkipDir on the root into nil
walkResult(r) == IF r.ret = "SkipDir" THEN [ret |-> "nil", acc |-> r.acc] ELSE r

\* filepath.Walk(root, fn)
Walk(who, root, acc) ==
    walkResult(IF root.statErr THEN WalkFn(who, <<root.name>>, root, TRUE, acc)
               ELSE walk(who, <<root.name>>, root, acc))

(***************************************************************************)
(* The analyzers                                                           *)
(***************************************************************************)
\* convertToIssues letting medium metrics through as well
RECURSIVE convertToIssues_medium(_)
convertToIssues_medium(metrics) ==
    IF metrics = <<>> THEN <<>>
    ELSE LET metric == Head(metrics)
         IN IF metric.Severity = "low"
            THEN convertToIssues_medium(Tail(metrics))
            ELSE <<[FilePath |-> metric.FilePath,
                    LineNumber |-> metric.StartLine,
                    IssueType |-> "complexity",
                    Severity |-> metric.Severity,
                    ToolName |-> "complexity_analyzer"]>>
                 \o convertToIssues_medium(Tail(metrics))

\* ComplexityAnalyzer.convertToIssues
RECURSIVE convertToIssues(_)
convertToIssues(metrics) ==
    IF metrics = <<>> THEN <<>>
    ELSE LET metric == Head(metrics)
         IN IF metric.Severity # "high" /\ metric.Severity # "critical"
            THEN convertToIssues(Tail(metrics))
            ELSE <<[FilePath |-> metric.FilePath,
                    LineNumber |-> metric.StartLine,
                    IssueType |-> "complexity",
                    Severity |-> metric.Severity,
                    ToolName |-> "complexity_analyzer"]>>
                 \o convertToIssues(Tail(metrics))

EmptyAcc == [metrics |-> <<>>, totalLines |-> 0, fileCount |-> 0, logs |-> <<>>, uuids |-> 0]

\* ComplexityAnalyzer.Analyze reporting every metric the store holds, not only
\* those of this run
\* Analyze after the walk returned w having collected allMetrics
complexityResult(w, allMetrics, store) ==
    IF w.ret = "err"
    THEN [name |-> "ComplexityAnalyzer", Issues |-> <<>>, err |-> TRUE,
          store |-> store, logs |-> Append(w.acc.logs, "walk_error"),
          loc |-> 0, file_count |-> 0]
    ELSE [name |-> "ComplexityAnalyzer", Issues |-> convertToIssues(allMetrics),
          err |-> FALSE,
          store |-> IF Len(allMetrics) > 0 THEN store \o allMetrics ELSE store,
          logs |-> Append(w.acc.logs, "analyzed"),
          loc |-> 0, file_count |-> 0]

complexityWalked_cumulative(w, store) == complexityResult(w, store \o w.acc.metrics, store)

complexityWalked(w, store) == complexityResult(w, w.acc.metrics, store)

ComplexityAnalyze_cumulative(root, store) ==
    complexityWalked_cumulative(
        Walk("complexity", root, [EmptyAcc EXCEPT !.uuids = Len(store)]), store)

\* ComplexityAnalyzer.Analyze: the result, the error, the log lines, and what
\* BatchCreate left in the store
ComplexityAnalyze(root, store) ==
    complexityWalked(Walk("complexity", root, [EmptyAcc EXCEPT !.uuids = Len(store)]), store)

\* LineCounter.Analyze
lineCounterResult(w, store) ==
    IF w.ret = "err"
    THEN [name |-> "LineCounter", Issues |-> <<>>, err |-> TRUE, store |-> store,
          logs |-> <<>>, loc |-> 0, file_count |-> 0]
    ELSE [name |-> "LineCounter", Issues |-> <<>>, err |-> FALSE, store |-> store,
          logs |-> <<>>, loc |-> w.acc.totalLines, file_count |-> w.acc.fileCount]

LineCounterAnalyze(root, store) == lineCounterResult(Walk("linecounter", root, EmptyAcc), store)

\* strings.ToUpper over the severity strings a Trivy report carries
ToUpper(s) ==
    CASE s = "high" -> "HIGH"
      [] s = "Medium" -> "MEDIUM"
      [] OTHER -> s

\* security.mapSeverity
\* mapSeverity handing an unlisted severity on as it came
mapSeverity_asIs(trivySeverity) ==
    LET u == ToUpper(trivySeverity) IN
    CASE u = "CRITICAL" -> "critical"
      [] u = "HIGH" -> "high"
      [] u = "MEDIUM" -> "medium"
      [] u = "LOW" -> "low"
      [] OTHER -> trivySeverity

mapSeverity(trivySeverity) ==
    LET u == ToUpper(trivySeverity) IN
    CASE u = "CRITICAL" -> "critical"
      [] u = "HIGH" -> "high"
      [] u = "MEDIUM" -> "medium"
      [] u = "LOW" -> "low"
      [] OTHER -> "info"

TrivySeverities == {"CRITICAL", "high", "Medium", "LOW", "UNKNOWN"}

\* one finding of a Trivy report: a vulnerability with its severity, or a secret
TrivyFindings ==
    {[kind |-> "vuln", Severity |-> sv] : sv \in TrivySeverities}
    \cup {[kind |-> "secret", Severity |-> "HIGH"]}

\* what running the trivy command gives: no output and an error, output that
\* is no JSON, or a report
TrivyOutputs ==
    {[status |-> st, findings |-> <<>>] : st \in {"exec_failed", "bad_json"}}
    \cup {[status |-> "ok", findings |-> f] : f \in SeqsUpTo(TrivyFindings, MaxFindings)}

trivyIssue(finding) ==
    IF finding.kind = "vuln"
    THEN [FilePath |-> <<"target">>, LineNumber |-> 0, IssueType |-> "security",
          Severity |-> mapSeverity(finding.Severity), ToolName |-> "trivy"]
    ELSE [FilePath |-> <<"target">>, LineNumber |-> 1, IssueType |-> "security",
          Severity |-> "critical", ToolName |-> "trivy"]

\* TrivyAnalyzer.Analyze
TrivyAnalyze(installed, out, store) ==
    IF ~installed
    THEN [name |-> "Trivy Security Scanner", Issues |-> <<>>, err |-> FALSE,
          store |-> store, logs |-> <<"trivy_not_installed">>, loc |-> 0, file_count |-> 0]
    ELSE IF out.status # "ok"
    THEN [name |-> "Trivy Security Scanner", Issues |-> <<>>, err |-> TRUE,
          store |-> store, logs |-> <<>>, loc |-> 0, file_count |-> 0]
    ELSE [name |-> "Trivy Security Scanner",
          Issues |-> [i \in 1..Len(out.findings) |-> trivyIssue(out.findings[i])],
          err |-> FALSE, store |-> store, logs |-> <<>>, loc |-> 0, file_count |-> 0]

(***************************************************************************)
(* Directory trees the runs start from                                     *)
(***************************************************************************)
NoContent == [parse |-> "ok", funcs |-> <<>>, newlines |-> 0]

\* the functions a source file may hold, by their measured values
FnKinds ==
    {[name |-> "simple", C |-> 1, K |-> 0, N |-> 0, P |-> 2, startLine |-> 1, bodyLine |-> 1, endLine |-> 2],
     [name |-> "branchy", C |-> 11, K |-> 4, N |-> 2, P |-> 1, startLine |-> 3, bodyLine |-> 3, endLine |-> 30],
     [name |-> "nested", C |-> 16, K |-> 21, N |-> 5, P |-> 0, startLine |-> 31, bodyLine |-> 32, endLine |-> 90],
     [name |-> "monster", C |-> 21, K |-> 26, N |-> 6, P |-> 8, startLine |-> 91, bodyLine |-> 92, endLine |-> 400]}

\* what a file may hold: bytes the parser rejects, or a list of functions
\* a zero-byte file
EmptyFile == [parse |-> "empty", funcs |-> <<>>, newlines |-> 0]

Contents ==
    {[parse |-> "fail", funcs |-> <<>>, newlines |-> 1], EmptyFile}
    \cup {[parse |-> "ok", funcs |-> f, newlines |-> 2 * Len(f)] :
             f \in SeqsUpTo(FnKinds, MaxFuncs)}

\* the contents of a file with at most one function
SingleContents ==
    {[parse |-> "fail", funcs |-> <<>>, newlines |-> 1], NoContent}
    \cup {[parse |-> "ok", funcs |-> <<f>>, newlines |-> 2] : f \in FnKinds}

DirtyContent ==
    [parse |-> "ok",
     funcs |-> <<[name |-> "monster", C |-> 21, K |-> 26, N |-> 6, P |-> 8,
                  startLine |-> 91, bodyLine |-> 92, endLine |-> 400]>>,
     newlines |-> 2]

File(name, content, statErr, ioErr) ==
    [kind |-> "file", name |-> name, statErr |-> statErr, ioErr |-> ioErr,
     content |-> content, children |-> {}]

Dir(name, children, statErr, ioErr) ==
    [kind |-> "dir", name |-> name, statErr |-> statErr, ioErr |-> ioErr,
     content |-> NoContent, children |-> children]

\* a file of every content, and the same file unreadable or impossible to stat
FileVariants(name, contents) ==
    {File(name, c, FALSE, FALSE) : c \in contents}
    \cup {File(name, DirtyContent, TRUE, FALSE), File(name, DirtyContent, FALSE, TRUE)}

\* root/{file, dir1/{b.rb, dir2/{c.js}}}
Tree(rootName, f1, d1Name, f2, d2Name, d2Err, f3) ==
    Dir(rootName,
        {f1, Dir(d1Name, {f2, Dir(d2Name, {f3}, FALSE, d2Err)}, FALSE, FALSE)},
        FALSE, FALSE)

WalkTrees ==
    {Tree(rn, f1, d1, f2, d2, d2e, f3) :
        rn \in {"repo", "vendor"},
        f1 \in FileVariants("a.go", Contents)
                 \cup {File("M.GO", DirtyContent, FALSE, FALSE),
                       File("d.txt", DirtyContent, FALSE, FALSE)},
        d1 \in {"src", ".git", "node_modules", "vendor"},
        f2 \in FileVariants("b.rb", SingleContents),
        d2 \in {"lib", "venv", ".venv", "__pycache__"},
        d2e \in BOOLEAN,
        f3 \in {File("c.js", DirtyContent, FALSE, FALSE)}}

CleanContent ==
    [parse |-> "ok",
     funcs |-> <<[name |-> "simple", C |-> 1, K |-> 0, N |-> 0, P |-> 2,
                  startLine |-> 1, bodyLine |-> 1, endLine |-> 2]>>,
     newlines |-> 2]

BrokenContent == [parse |-> "fail", funcs |-> <<>>, newlines |-> 1]

\* the trees the command-line runs scan
MainTrees ==
    {Tree("repo", f1, d1, f2, "venv", FALSE, File("c.js", DirtyContent, FALSE, FALSE)) :
        f1 \in FileVariants("a.go", {BrokenContent, CleanContent, DirtyContent}),
        d1 \in {"src", "vendor"},
        f2 \in {File("b.rb", DirtyContent, FALSE, FALSE),
                File("b.rb", CleanContent, TRUE, FALSE)}}

(***************************************************************************)
(* cmd/debtdrone: main                                                     *)
(***************************************************************************)
Thresholds == {"info", "low", "medium", "high", "critical", "none", "bogus"}
Formats == {"text", "json", "xml"}

Msg(m, n, issues) == [msg |-> m, n |-> n, issues |-> issues]

\* log.Printf output: discarded once main called log.SetOutput(ioutil.Discard)
LogLines(format, logs) ==
    IF format = "json" THEN <<>>
    ELSE [i \in 1..Len(logs) |-> Msg(logs[i], 0, <<>>)]

analyzersList == <<"LineCounter", "ComplexityAnalyzer", "Trivy Security Scanner">>

\* analyzer.Analyze(ctx, repo) for the analyzer at position i of analyzersList
Analyze(i, root, store, installed, trivyOut) ==
    CASE i = 1 -> LineCounterAnalyze(root, store)
      [] i = 2 -> ComplexityAnalyze(root, store)
      [] OTHER -> TrivyAnalyze(installed, trivyOut, store)

\* printReport: what it writes to standard output
RECURSIVE issueLines(_)
issueLines(issues) ==
    IF issues = <<>> THEN <<>>
    ELSE <<Msg("issue_line", 1, <<Head(issues)>>)>> \o issueLines(Tail(issues))

printReport(issues, format) ==
    IF format = "json" THEN <<Msg("json", Len(issues), issues)>>
    ELSE <<Msg("report_header", Len(issues), <<>>)>> \o issueLines(issues)

NoJob == [lang |-> "", path |-> <<>>, content |-> NoContent]
NoFileResult == [done |-> FALSE, metrics |-> <<>>, err |-> FALSE]

NoAst == [depths |-> <<>>, root |-> 0]
NoCursor == [at |-> 0, visited |-> <<>>, done |-> FALSE]

\* no traversal under way
CursorIdle ==
    /\ ast = NoAst
    /\ cursor = NoCursor

\* no engine constructed
EngineIdle ==
    /\ jobQueue = <<>>
    /\ quit = FALSE
    /\ workerState = <<>>
    /\ runLog = <<>>
    /\ submitLog = <<>>
    /\ stopState = "new"

MainInit ==
    /\ pc = "start"
    /\ versionFlag \in BOOLEAN
    /\ failOn \in Thresholds
    /\ outputFormat \in Formats
    /\ gitInstalled \in BOOLEAN
    /\ trivyInstalled \in BOOLEAN
    /\ absOK \in BOOLEAN
    /\ pathExists \in BOOLEAN
    /\ fs \in MainTrees
    /\ ctxDone = FALSE
    /\ idx = 0
    /\ ran = <<>>
    /\ allIssues = <<>>
    /\ bar = -1
    /\ stdout = <<>>
    /\ stderr = <<>>
    /\ reports = 0
    /\ gateResult = "unset"
    /\ exitCode = -1
    /\ complexityStore = <<>>
    /\ job = NoJob
    /\ fileResult = NoFileResult
    /\ CursorIdle
    /\ EngineIdle

inputs == <<versionFlag, failOn, outputFormat, gitInstalled, trivyInstalled,
            absOK, pathExists, fs, ctxDone, job, fileResult>>

\* flag.Parse and the --version branch
MainVersion ==
    /\ pc = "start"
    /\ IF versionFlag
       THEN /\ stderr' = Append(stderr, Msg("version", 0, <<>>))
            /\ exitCode' = 0
            /\ pc' = "exited"
       ELSE /\ pc' = "checkDependencies"
            /\ UNCHANGED <<stderr, exitCode>>
    /\ UNCHANGED <<cursorVars, engineVars, inputs, idx, ran, allIssues, bar, stdout, reports, gateResult,
                   complexityStore>>

\* checkDependencies
CheckDependencies ==
    /\ pc = "checkDependencies"
    /\ IF ~gitInstalled
       THEN /\ stderr' = Append(stderr, Msg("git_missing", 0, <<>>))
            /\ exitCode' = 1
            /\ pc' = "exited"
       ELSE /\ stderr' = IF trivyInstalled THEN stderr
                         ELSE Append(stderr, Msg("trivy_missing", 0, <<>>))
            /\ pc' = "resolve"
            /\ UNCHANGED exitCode
    /\ UNCHANGED <<cursorVars, engineVars, inputs, idx, ran, allIssues, bar, stdout, reports, gateResult,
                   complexityStore>>

\* filepath.Abs, then the banner in text mode
MainResolve ==
    /\ pc = "resolve"
    /\ IF ~absOK
       THEN /\ stderr' = Append(stderr, Msg("resolve_failed", 0, <<>>))
            /\ exitCode' = 1
            /\ pc' = "exited"
       ELSE /\ stderr' = IF outputFormat = "text"
                         THEN stderr \o <<Msg("banner", 0, <<>>), Msg("scanning", 0, <<>>)>>
                         ELSE stderr
            /\ pc' = "open"
            /\ UNCHANGED exitCode
    /\ UNCHANGED <<cursorVars, engineVars, inputs, idx, ran, allIssues, bar, stdout, reports, gateResult,
                   complexityStore>>

\* gitService.OpenLocal, then the context, the analyzer list and the spinner
MainOpenLocal ==
    /\ pc = "open"
    /\ IF ~pathExists
       THEN /\ stderr' = Append(stderr, Msg("open_failed", 0, <<>>))
            /\ exitCode' = 1
            /\ pc' = "exited"
            /\ UNCHANGED <<idx, bar>>
       ELSE /\ idx' = 1
            /\ bar' = IF outputFormat = "text" THEN 0 ELSE -1
            /\ stderr' = IF outputFormat = "text"
                         THEN Append(stderr, Msg("progress", 0, <<>>))
                         ELSE stderr
            /\ pc' = "analyze"
            /\ UNCHANGED exitCode
    /\ UNCHANGED <<cursorVars, engineVars, inputs, ran, allIssues, stdout, reports, gateResult, complexityStore>>

\* the loop body leaving the loop at the first analyzer error
loopBody_break(i, result) ==
    /\ ran' = Append(ran, [name |-> result.name, err |-> result.err,
                           Issues |-> result.Issues, loc |-> result.loc,
                           file_count |-> result.file_count])
    /\ allIssues' = IF result.err THEN allIssues ELSE allIssues \o result.Issues
    /\ complexityStore' = result.store
    /\ bar' = IF bar # -1 THEN bar + 1 ELSE bar
    /\ stderr' = stderr \o LogLines(outputFormat, result.logs)
                   \o (IF bar # -1 THEN <<Msg("progress", bar + 1, <<>>)>> ELSE <<>>)
    /\ idx' = IF result.err THEN Len(analyzersList) + 1 ELSE i + 1
    /\ pc' = "analyze"
    /\ UNCHANGED exitCode

\* the loop body treating an analyzer error as fatal
loopBody_fatal(i, result) ==
    /\ ran' = Append(ran, [name |-> result.name, err |-> result.err,
                           Issues |-> result.Issues, loc |-> result.loc,
                           file_count |-> result.file_count])
    /\ allIssues' = IF result.err THEN allIssues ELSE allIssues \o result.Issues
    /\ complexityStore' = result.store
    /\ bar' = IF bar # -1 THEN bar + 1 ELSE bar
    /\ stderr' = stderr \o LogLines(outputFormat, result.logs)
                   \o (IF bar # -1 THEN <<Msg("progress", bar + 1, <<>>)>> ELSE <<>>)
    /\ idx' = i + 1
    /\ pc' = IF result.err THEN "exited" ELSE "analyze"
    /\ exitCode' = IF result.err THEN 1 ELSE exitCode

\* the loop body putting an analyzer's issues in front of the earlier ones
loopBody_prepend(i, result) ==
    /\ ran' = Append(ran, [name |-> result.name, err |-> result.err,
                           Issues |-> result.Issues, loc |-> result.loc,
                           file_count |-> result.file_count])
    /\ allIssues' = IF result.err THEN allIssues ELSE result.Issues \o allIssues
    /\ complexityStore' = result.store
    /\ bar' = IF bar # -1 THEN bar + 1 ELSE bar
    /\ stderr' = stderr \o LogLines(outputFormat, result.logs)
                   \o (IF bar # -1 THEN <<Msg("progress", bar + 1, <<>>)>> ELSE <<>>)
    /\ idx' = i + 1
    /\ pc' = "analyze"
    /\ UNCHANGED exitCode

\* one iteration of the loop over analyzersList
loopBody(i, result) ==
    /\ ran' = Append(ran, [name |-> result.name, err |-> result.err,
                           Issues |-> result.Issues, loc |-> result.loc,
                           file_count |-> result.file_count])
    /\ allIssues' = IF result.err THEN allIssues ELSE allIssues \o result.Issues
    /\ complexityStore' = result.store
    /\ bar' = IF bar # -1 THEN bar + 1 ELSE bar
    /\ stderr' = stderr \o LogLines(outputFormat, result.logs)
                   \o (IF bar # -1 THEN <<Msg("progress", bar + 1, <<>>)>> ELSE <<>>)
    /\ idx' = i + 1
    /\ pc' = "analyze"
    /\ UNCHANGED exitCode

MainRunAnalyzer ==
    /\ pc = "analyze"
    /\ idx <= Len(analyzersList)
    /\ \E out \in TrivyOutputs :
          /\ (idx # 3 \/ ~trivyInstalled) => out = [status |-> "ok", findings |-> <<>>]
          /\ loopBody(idx, Analyze(idx, fs, complexityStore, trivyInstalled, out))
    /\ UNCHANGED <<cursorVars, engineVars, inputs, stdout, reports, gateResult>>

\* after the loop: bar.Finish and the blank line
MainFinishBar ==
    /\ pc = "analyze"
    /\ idx > Len(analyzersList)
    /\ stderr' = IF bar # -1 THEN Append(stderr, Msg("newline", 0, <<>>)) ELSE stderr
    /\ pc' = "report"
    /\ UNCHANGED <<cursorVars, engineVars, inputs, idx, ran, allIssues, bar, stdout, reports, gateResult,
                   exitCode, complexityStore>>

\* main going on to the gate without having printed the report
MainPrintReport_skipped ==
    /\ pc = "report"
    /\ pc' = "gate"
    /\ UNCHANGED <<cursorVars, engineVars, inputs, idx, ran, allIssues, bar, stdout, stderr,
                   reports, gateResult, exitCode, complexityStore>>

\* printReport(allIssues, *outputFormat)
MainPrintReport ==
    /\ pc = "report"
    /\ stdout' = stdout \o printReport(allIssues, outputFormat)
    /\ reports' = reports + 1
    /\ pc' = "gate"
    /\ UNCHANGED <<cursorVars, engineVars, inputs, idx, ran, allIssues, bar, stderr, gateResult, exitCode,
                   complexityStore>>

\* the gate printing its failure message to standard output
MainGate_stdout ==
    /\ pc = "gate"
    /\ gateResult' = IF shouldFail(allIssues, failOn) THEN "fail" ELSE "pass"
    /\ IF shouldFail(allIssues, failOn)
       THEN /\ stdout' = Append(stdout, Msg("gate_failed", 0, <<>>))
            /\ stderr' = stderr
            /\ exitCode' = 1
       ELSE /\ stderr' = IF outputFormat = "text"
                         THEN IF Len(allIssues) > 0
                              THEN Append(stderr, Msg("scan_completed", Len(allIssues), <<>>))
                              ELSE Append(stderr, Msg("scan_passed", 0, <<>>))
                         ELSE stderr
            /\ stdout' = stdout
            /\ exitCode' = 0
    /\ pc' = "exited"
    /\ UNCHANGED <<cursorVars, engineVars, inputs, idx, ran, allIssues, bar, reports, complexityStore>>

\* the gate closing a text run with the no-issues line whatever the issues are
MainGate_passedLine ==
    /\ pc = "gate"
    /\ gateResult' = IF shouldFail(allIssues, failOn) THEN "fail" ELSE "pass"
    /\ IF shouldFail(allIssues, failOn)
       THEN /\ stderr' = Append(stderr, Msg("gate_failed", 0, <<>>))
            /\ exitCode' = 1
       ELSE /\ stderr' = IF outputFormat = "text"
                         THEN Append(stderr, Msg("scan_passed", 0, <<>>))
                         ELSE stderr
            /\ exitCode' = 0
    /\ pc' = "exited"
    /\ UNCHANGED <<cursorVars, engineVars, inputs, idx, ran, allIssues, bar, stdout, reports, complexityStore>>

\* the quality gate and the closing message
MainGate ==
    /\ pc = "gate"
    /\ gateResult' = IF shouldFail(allIssues, failOn) THEN "fail" ELSE "pass"
    /\ IF shouldFail(allIssues, failOn)
       THEN /\ stderr' = Append(stderr, Msg("gate_failed", 0, <<>>))
            /\ exitCode' = 1
       ELSE /\ stderr' = IF outputFormat = "text"
                         THEN IF Len(allIssues) > 0
                              THEN Append(stderr, Msg("scan_completed", Len(allIssues), <<>>))
                              ELSE Append(stderr, Msg("scan_passed", 0, <<>>))
                         ELSE stderr
            /\ exitCode' = 0
    /\ pc' = "exited"
    /\ UNCHANGED <<cursorVars, engineVars, inputs, idx, ran, allIssues, bar, stdout, reports, complexityStore>>

Next ==
    \/ MainVersion
    \/ CheckDependencies
    \/ MainResolve
    \/ MainOpenLocal
    \/ MainRunAnalyzer
    \/ MainFinishBar
    \/ MainPrintReport
    \/ MainGate

Spec == MainInit /\ [][Next]_vars

(***************************************************************************)
(* The gate on its own: shouldFail over arbitrary issue lists              *)
(***************************************************************************)
EmptyTree == Dir("repo", {}, FALSE, FALSE)

GateSeverities == {"info", "low", "medium", "high", "critical", "unknown"}

GateIssues ==
    {[FilePath |-> <<"f.go">>, LineNumber |-> 1, IssueType |-> "complexity",
      Severity |-> sv, ToolName |-> "complexity_analyzer"] : sv \in GateSeverities}

GateInit ==
    /\ pc = "gate"
    /\ versionFlag = FALSE
    /\ failOn \in Thresholds
    /\ outputFormat \in Formats
    /\ gitInstalled = TRUE
    /\ trivyInstalled = TRUE
    /\ absOK = TRUE
    /\ pathExists = TRUE
    /\ fs = EmptyTree
    /\ ctxDone = FALSE
    /\ idx = Len(analyzersList) + 1
    /\ ran = <<>>
    /\ allIssues \in SeqsUpTo(GateIssues, MaxGateIssues)
    /\ bar = -1
    /\ stdout = <<>>
    /\ stderr = <<>>
    /\ reports = 1
    /\ gateResult = "unset"
    /\ exitCode = -1
    /\ complexityStore = <<>>
    /\ job = NoJob
    /\ fileResult = NoFileResult
    /\ CursorIdle
    /\ EngineIdle

GateNext == MainGate

SpecGate == GateInit /\ [][GateNext]_vars

(***************************************************************************)
(* The complexity analyzer on its own: one Analyze over a directory tree   *)
(***************************************************************************)
WalkInit ==
    /\ pc = "walk"
    /\ versionFlag = FALSE
    /\ failOn = "high"
    /\ outputFormat = "text"
    /\ gitInstalled = TRUE
    /\ trivyInstalled = TRUE
    /\ absOK = TRUE
    /\ pathExists = TRUE
    /\ fs \in WalkTrees
    /\ ctxDone \in BOOLEAN
    /\ idx = 2
    /\ ran = <<>>
    /\ allIssues = <<>>
    /\ bar = -1
    /\ stdout = <<>>
    /\ stderr = <<>>
    /\ reports = 0
    /\ gateResult = "unset"
    /\ exitCode = -1
    /\ complexityStore = <<>>
    /\ job = NoJob
    /\ fileResult = NoFileResult
    /\ CursorIdle
    /\ EngineIdle

\* complexityAnalyzer.Analyze(ctx, repo)
WalkAnalyze ==
    /\ pc = "walk"
    /\ \E result \in {ComplexityAnalyze(fs, complexityStore)} :
          /\ ran' = Append(ran, [name |-> result.name, err |-> result.err,
                                 Issues |-> result.Issues, loc |-> result.loc,
                                 file_count |-> result.file_count])
          /\ complexityStore' = result.store
          /\ stderr' = stderr \o LogLines(outputFormat, result.logs)
    /\ pc' = "walked"
    /\ UNCHANGED <<cursorVars, engineVars, inputs, idx, allIssues, bar, stdout, reports, gateResult, exitCode>>

\* a second Analyze of the same analyzer over the same, unchanged tree
WalkAgain ==
    /\ pc = "walked"
    /\ \E result \in {ComplexityAnalyze(fs, complexityStore)} :
          /\ ran' = Append(ran, [name |-> result.name, err |-> result.err,
                                 Issues |-> result.Issues, loc |-> result.loc,
                                 file_count |-> result.file_count])
          /\ complexityStore' = result.store
          /\ stderr' = stderr \o LogLines(outputFormat, result.logs)
    /\ pc' = "walked2"
    /\ UNCHANGED <<cursorVars, engineVars, inputs, idx, allIssues, bar, stdout, reports, gateResult, exitCode>>

WalkNext == WalkAnalyze \/ WalkAgain

SpecWalk == WalkInit /\ [][WalkNext]_vars

(***************************************************************************)
(* One language analyzer on its own: AnalyzeFile over one file             *)
(***************************************************************************)
\* measured values around every cutoff of the two severity rules
\* first line, first line of the body block, last line of a function
FnShapes == {<<1, 1, 1>>, <<1, 2, 20>>, <<1, 1, 150>>, <<1, 1, 300>>}

FnGrid ==
    {[name |-> "f", C |-> c, K |-> k, N |-> n, P |-> p,
      startLine |-> sh[1], bodyLine |-> sh[2], endLine |-> sh[3]] :
        c \in {1, 6, 10, 11, 16, 20, 21}, k \in {0, 8, 16, 21, 26},
        n \in {0, 4, 5, 6, 8}, p \in {0, 6, 8}, sh \in FnShapes}

FileJobs ==
    {[lang |-> l, path |-> <<"src", "file">>, content |-> c] :
        l \in Languages,
        c \in Contents \cup {[parse |-> "ok", funcs |-> <<g>>, newlines |-> 20] : g \in FnGrid}}

FileInit ==
    /\ pc = "file"
    /\ versionFlag = FALSE
    /\ failOn = "high"
    /\ outputFormat = "text"
    /\ gitInstalled = TRUE
    /\ trivyInstalled = TRUE
    /\ absOK = TRUE
    /\ pathExists = TRUE
    /\ fs = EmptyTree
    /\ ctxDone = FALSE
    /\ idx = 2
    /\ ran = <<>>
    /\ allIssues = <<>>
    /\ bar = -1
    /\ stdout = <<>>
    /\ stderr = <<>>
    /\ reports = 0
    /\ gateResult = "unset"
    /\ exitCode = -1
    /\ complexityStore = <<>>
    /\ job \in FileJobs
    /\ fileResult = NoFileResult
    /\ CursorIdle
    /\ EngineIdle

\* analyzer.AnalyzeFile(relPath, content)
FileAnalyze ==
    /\ pc = "file"
    /\ \E r \in {AnalyzeFile(job.lang, job.path, job.content)} :
          fileResult' = [done |-> TRUE, metrics |-> r.metrics, err |-> r.err]
    /\ pc' = "filed"
    /\ UNCHANGED <<cursorVars, engineVars, versionFlag, failOn, outputFormat, gitInstalled, trivyInstalled,
                   absOK, pathExists, fs, ctxDone, job, idx, ran, allIssues, bar, stdout,
                   stderr, reports, gateResult, exitCode, complexityStore>>

GrowthAxes == {"cyclomatic", "cognitive", "lines"}

\* the function with one more decision point, one more cognitive point or one
\* more line in its body
Grown(fn, axis) ==
    CASE axis = "cyclomatic" -> [fn EXCEPT !.C = @ + 1]
      [] axis = "cognitive" -> [fn EXCEPT !.K = @ + 1]
      [] OTHER -> [fn EXCEPT !.endLine = @ + 1]

\* analyzer.AnalyzeFile on the same file after its one function grew
FileReanalyze ==
    /\ pc = "filed"
    /\ Len(job.content.funcs) = 1
    /\ \E axis \in GrowthAxes :
          /\ job' = [job EXCEPT !.content.funcs = <<Grown(job.content.funcs[1], axis)>>]
          /\ \E r \in {AnalyzeFile(job.lang, job.path,
                                  [job.content EXCEPT !.funcs = <<Grown(@[1], axis)>>])} :
                fileResult' = [done |-> TRUE, metrics |-> r.metrics, err |-> r.err]
    /\ pc' = "refiled"
    /\ UNCHANGED <<cursorVars, engineVars, versionFlag, failOn, outputFormat, gitInstalled, trivyInstalled,
                   absOK, pathExists, fs, ctxDone, idx, ran, allIssues, bar, stdout,
                   stderr, reports, gateResult, exitCode, complexityStore>>

FileNext == FileAnalyze \/ FileReanalyze

SpecFile == FileInit /\ [][FileNext]_vars

(***************************************************************************)
(* The three measures of one function body, per language analyzer          *)
(***************************************************************************)
\* A function body by what the calculators count in it: if statements, plain
\* else branches, loops, switch statements and their case entries, try
\* statements and their catch clauses, && / || operators (tight: written
\* without blanks around them), member accesses, and the deepest level of
\* control constructs around a statement.  Every block is written in the
\* language's usual block form, there is no else-if chain and no conditional
\* expression.
PlainBody ==
    [ifs |-> 0, elses |-> 0, loops |-> 0, switches |-> 0, cases |-> 0,
     tries |-> 0, catches |-> 0, logic |-> 0, tight |-> FALSE, navs |-> 0,
     depth |-> 0]

Bodies ==
    {PlainBody,
     [PlainBody EXCEPT !.navs = 1],
     [PlainBody EXCEPT !.ifs = 1, !.depth = 1],
     [PlainBody EXCEPT !.ifs = 1, !.elses = 1, !.depth = 1],
     [PlainBody EXCEPT !.loops = 1, !.depth = 1],
     [PlainBody EXCEPT !.loops = 1, !.ifs = 1, !.depth = 2],
     [PlainBody EXCEPT !.ifs = 1, !.logic = 1, !.depth = 1],
     [PlainBody EXCEPT !.ifs = 1, !.logic = 1, !.tight = TRUE, !.depth = 1],
     [PlainBody EXCEPT !.ifs = 2, !.logic = 2, !.depth = 2],
     [PlainBody EXCEPT !.switches = 1, !.cases = 2, !.depth = 1],
     [PlainBody EXCEPT !.tries = 1, !.catches = 1, !.depth = 1]}

\* Go and Rust have no try statement
Expressible(lang, b) == lang \in {"Go", "Rust"} => b.tries = 0 /\ b.catches = 0

\* the body text the pattern-based calculators are given, by what their
\* patterns and the brace count find in it.  Java hands over the method's block
\* and C# the lines from the declaration to the closing brace, both with the
\* function's own braces; Python hands over the def, which has no braces,
\* spells the logical operators and / or and the handler except.  The
\* TypeScript analyzer's function finder is not among the sources; its text
\* is taken to be cut like the C# one.
BodyText(lang, b) ==
    IF lang = "Python"
    THEN [ifWords |-> b.ifs, loopWords |-> b.loops, switchWords |-> 0,
          tryWords |-> b.tries, caseWords |-> b.cases, catchWords |-> 0,
          ops |-> 0, boundedOps |-> 0, braceDepth |-> 0]
    ELSE [ifWords |-> b.ifs, loopWords |-> b.loops, switchWords |-> b.switches,
          tryWords |-> b.tries, caseWords |-> b.cases, catchWords |-> b.catches,
          ops |-> b.logic, boundedOps |-> IF b.tight THEN b.logic ELSE 0,
          braceDepth |-> 1 + b.depth]

\* common.go: one per match of if, for, while, case, catch, && and ||
calculatePatternBasedCyclomatic(code) ==
    1 + code.ifWords + code.loopWords + code.caseWords + code.catchWords + code.ops

\* common.go: two per match of if, for, while, switch, try; one per match of
\* \b&&\b or \b||\b, which wants a word character on both sides of the operator
calculatePatternBasedCognitive(code) ==
    (code.ifWords + code.loopWords + code.switchWords + code.tryWords) * 2
    + code.boundedOps

\* common.go: the deepest level of { } in the text
calculatePatternBasedNesting(code) == code.braceDepth

\* Go, over the go/ast tree
calculateCyclomaticComplexity(b) == 1 + b.ifs + b.loops + b.cases + b.logic

calculateCognitiveComplexity(b) ==
    b.ifs + b.elses + b.loops + b.switches + b.logic

calculateNestingDepth(b) == b.depth

calculateJavaCyclomatic(b) == 1 + b.ifs + b.loops + b.catches + b.cases + b.logic

calculateJSCyclomatic(b) == 1 + b.ifs + b.loops + b.cases + b.catches + b.logic

calculateJSCognitive(b) == (b.ifs + b.loops + b.cases + b.catches) * 2 + b.logic

calculateJSNesting(b) == b.depth

calculateKotlinCyclomatic(b) ==
    1 + b.ifs + b.loops + b.catches + b.switches + b.cases + b.logic + b.navs

calculateKotlinCognitive(b) ==
    (b.ifs + b.switches + b.loops + b.catches) * 2 + b.logic

calculateKotlinNesting(b) == b.depth

calculatePHPCyclomatic(b) ==
    1 + b.ifs + b.loops + b.switches + b.cases + b.catches + b.logic

calculatePHPCognitive(b) == (b.ifs + b.loops + b.cases + b.catches) * 2 + b.logic

calculatePHPNesting(b) == b.depth

calculateRubyCyclomatic(b) == 1 + b.ifs + b.loops + b.cases + b.catches + b.logic

calculateRubyCognitive(b) ==
    (b.ifs + b.switches + b.loops + b.catches) * 2 + b.logic

calculateRubyNesting(b) == b.depth

calculateRustCyclomatic(b) == 1 + b.ifs + b.switches + b.cases + b.loops + b.logic

calculateRustCognitive(b) == (b.ifs + b.switches + b.loops) * 2 + b.logic

calculateRustNesting(b) == b.depth

calculateSwiftCyclomatic(b) == 1 + b.ifs + b.loops + b.cases + b.catches + b.logic

calculateSwiftCognitive(b) ==
    (b.ifs + b.switches + b.loops + b.tries + b.catches) * 2 + b.logic

calculateSwiftNesting(b) == b.depth

calculateCCppCyclomatic(b) == 1 + b.ifs + b.loops + b.cases + b.catches + b.logic

calculateCCppCognitive(b) ==
    (b.ifs + b.loops + b.switches + b.catches) * 2 + b.logic

calculateCCppNesting(b) == b.depth

\* the calculators each AnalyzeFile calls for one function
CyclomaticOf(lang, b) ==
    CASE lang = "Go" -> calculateCyclomaticComplexity(b)
      [] lang \in {"Python", "TypeScript", "C#"} ->
            calculatePatternBasedCyclomatic(BodyText(lang, b))
      [] lang = "Java" -> calculateJavaCyclomatic(b)
      [] lang = "JavaScript" -> calculateJSCyclomatic(b)
      [] lang = "Kotlin" -> calculateKotlinCyclomatic(b)
      [] lang = "PHP" -> calculatePHPCyclomatic(b)
      [] lang = "Ruby" -> calculateRubyCyclomatic(b)
      [] lang = "Rust" -> calculateRustCyclomatic(b)
      [] lang = "Swift" -> calculateSwiftCyclomatic(b)
      [] OTHER -> calculateCCppCyclomatic(b)

CognitiveOf(lang, b) ==
    CASE lang = "Go" -> calculateCognitiveComplexity(b)
      [] lang \in {"Python", "TypeScript", "C#", "Java"} ->
            calculatePatternBasedCognitive(BodyText(lang, b))
      [] lang = "JavaScript" -> calculateJSCognitive(b)
      [] lang = "Kotlin" -> calculateKotlinCognitive(b)
      [] lang = "PHP" -> calculatePHPCognitive(b)
      [] lang = "Ruby" -> calculateRubyCognitive(b)
      [] lang = "Rust" -> calculateRustCognitive(b)
      [] lang = "Swift" -> calculateSwiftCognitive(b)
      [] OTHER -> calculateCCppCognitive(b)

NestingOf(lang, b) ==
    CASE lang = "Go" -> calculateNestingDepth(b)
      [] lang \in {"Python", "TypeScript", "C#", "Java"} ->
            calculatePatternBasedNesting(BodyText(lang, b))
      [] lang = "JavaScript" -> calculateJSNesting(b)
      [] lang = "Kotlin" -> calculateKotlinNesting(b)
      [] lang = "PHP" -> calculatePHPNesting(b)
      [] lang = "Ruby" -> calculateRubyNesting(b)
      [] lang = "Rust" -> calculateRustNesting(b)
      [] lang = "Swift" -> calculateSwiftNesting(b)
      [] OTHER -> calculateCCppNesting(b)

MeasureJobs ==
    {[lang |-> l, body |-> b] : l \in Languages, b \in Bodies}

MeasureInit ==
    /\ pc = "measure"
    /\ versionFlag = FALSE
    /\ failOn = "high"
    /\ outputFormat = "text"
    /\ gitInstalled = TRUE
    /\ trivyInstalled = TRUE
    /\ absOK = TRUE
    /\ pathExists = TRUE
    /\ fs = EmptyTree
    /\ ctxDone = FALSE
    /\ idx = 2
    /\ ran = <<>>
    /\ allIssues = <<>>
    /\ bar = -1
    /\ stdout = <<>>
    /\ stderr = <<>>
    /\ reports = 0
    /\ gateResult = "unset"
    /\ exitCode = -1
    /\ complexityStore = <<>>
    /\ job \in {j \in MeasureJobs : Expressible(j.lang, j.body)}
    /\ fileResult = NoFileResult
    /\ CursorIdle
    /\ EngineIdle

\* the three calculator calls at the head of AnalyzeFile's loop over functions
Measure ==
    /\ pc = "measure"
    /\ fileResult' = [done |-> TRUE,
                      cyclomatic |-> CyclomaticOf(job.lang, job.body),
                      cognitive |-> CognitiveOf(job.lang, job.body),
                      nesting |-> NestingOf(job.lang, job.body)]
    /\ pc' = "measured"
    /\ UNCHANGED <<cursorVars, engineVars, versionFlag, failOn, outputFormat, gitInstalled, trivyInstalled,
                   absOK, pathExists, fs, ctxDone, job, idx, ran, allIssues, bar, stdout,
                   stderr, reports, gateResult, exitCode, complexityStore>>

MeasureNext == Measure

SpecMeasure == MeasureInit /\ [][MeasureNext]_vars

(***************************************************************************)
(* The tree-cursor traversal of the cyclomatic calculators                 *)
(***************************************************************************)
MaxNodes == 6

\* a parse tree as the depths of its nodes listed in pre-order: the first node
\* is the tree's root, and a node lies at most one level below the node
\* before it.  A node is named by its position in that list.
ParseTrees ==
    UNION {{d \in [1..n -> 0..(n - 1)] :
                /\ d[1] = 0
                /\ \A i \in 2..n : d[i] >= 1 /\ d[i] <= d[i - 1] + 1} :
           n \in 1..MaxNodes}

\* the three moves of a sitter.TreeCursor made by NewTreeCursor(start): the
\* node moved to, 0 when the move returns false.  The start node is the root
\* of the cursor, which has neither a parent nor a sibling to move to.
GoToFirstChild(d, at) ==
    IF at < Len(d) /\ d[at + 1] = d[at] + 1 THEN at + 1 ELSE 0

GoToNextSibling(d, start, at) ==
    IF at = start THEN 0
    ELSE LET later == {j \in (at + 1)..Len(d) :
                          /\ d[j] = d[at]
                          /\ \A k \in (at + 1)..j : d[k] >= d[at]}
         IN IF later = {} THEN 0
            ELSE CHOOSE j \in later : \A o \in later : j <= o

GoToParent(d, start, at) ==
    IF at = start THEN 0
    ELSE CHOOSE j \in 1..(at - 1) :
            /\ d[j] = d[at] - 1
            /\ \A k \in (j + 1)..at : d[k] >= d[at]

\* for cursor.GoToParent() { if cursor.GoToNextSibling() { goto NextSibling } }
\* followed by break: the node the loop goes on with, 0 when it breaks
RECURSIVE climb(_, _, _)
climb(d, start, at) ==
    IF GoToParent(d, start, at) = 0 THEN 0
    ELSE IF GoToNextSibling(d, start, GoToParent(d, start, at)) # 0
    THEN GoToNextSibling(d, start, GoToParent(d, start, at))
    ELSE climb(d, start, GoToParent(d, start, at))

\* the loop leaving as soon as the node has neither a child nor a sibling
cursorAdvance_noClimb(d, start, at) ==
    IF GoToFirstChild(d, at) # 0 THEN GoToFirstChild(d, at)
    ELSE GoToNextSibling(d, start, at)

\* the moves at the end of one iteration of the loop
cursorAdvance(d, start, at) ==
    IF GoToFirstChild(d, at) # 0 THEN GoToFirstChild(d, at)
    ELSE IF GoToNextSibling(d, start, at) # 0 THEN GoToNextSibling(d, start, at)
    ELSE climb(d, start, at)

CursorInit ==
    /\ pc = "traverse"
    /\ versionFlag = FALSE
    /\ failOn = "high"
    /\ outputFormat = "text"
    /\ gitInstalled = TRUE
    /\ trivyInstalled = TRUE
    /\ absOK = TRUE
    /\ pathExists = TRUE
    /\ fs = EmptyTree
    /\ ctxDone = FALSE
    /\ idx = 2
    /\ ran = <<>>
    /\ allIssues = <<>>
    /\ bar = -1
    /\ stdout = <<>>
    /\ stderr = <<>>
    /\ reports = 0
    /\ gateResult = "unset"
    /\ exitCode = -1
    /\ complexityStore = <<>>
    /\ job = NoJob
    /\ fileResult = NoFileResult
    /\ EngineIdle
    /\ \E d \in ParseTrees : \E start \in 1..Len(d) :
          /\ ast = [depths |-> d, root |-> start]
          /\ cursor = [at |-> start, visited |-> <<>>, done |-> FALSE]

\* one iteration of the loop: the node under the cursor is looked at, then the
\* cursor moves on or the loop breaks
CursorStep ==
    /\ pc = "traverse"
    /\ ~cursor.done
    /\ \E next \in {cursorAdvance(ast.depths, ast.root, cursor.at)} :
          cursor' = [at |-> IF next = 0 THEN cursor.at ELSE next,
                     visited |-> Append(cursor.visited, cursor.at),
                     done |-> next = 0]
    /\ UNCHANGED <<engineVars, ast, versionFlag, failOn, outputFormat, gitInstalled,
                   trivyInstalled, absOK, pathExists, fs, ctxDone, job, fileResult,
                   pc, idx, ran, allIssues, bar, stdout, stderr, reports, gateResult,
                   exitCode, complexityStore>>

CursorNext == CursorStep

SpecCursor == CursorInit /\ [][CursorNext]_vars

(***************************************************************************)
(* The analysis engine: job queue and worker pool                          *)
(***************************************************************************)
MaxJobs == 2      \* jobs handed to SubmitJob, one call each
QueueCap == 1     \* the buffer of jobQueue, 100 in NewEngine
NumWorkers == 2   \* Engine.workers

JobIds == 1..MaxJobs
WorkerIds == 1..NumWorkers

\* Engine.analyzers
EngineAnalyzers == <<"first", "second">>

IdleWorker == [pc |-> "select", job |-> 0, i |-> 0]

\* analysisStore.UpdateStatus returns nil or an error
UpdateOutcomes == {"ok", "error"}

MainUnused ==
    /\ versionFlag = FALSE
    /\ failOn = "high"
    /\ outputFormat = "text"
    /\ gitInstalled = TRUE
    /\ trivyInstalled = TRUE
    /\ absOK = TRUE
    /\ pathExists = TRUE
    /\ fs = EmptyTree
    /\ ctxDone = FALSE
    /\ idx = 2
    /\ ran = <<>>
    /\ allIssues = <<>>
    /\ bar = -1
    /\ stdout = <<>>
    /\ stderr = <<>>
    /\ reports = 0
    /\ gateResult = "unset"
    /\ exitCode = -1
    /\ complexityStore = <<>>
    /\ job = NoJob
    /\ fileResult = NoFileResult

\* NewEngine
EngineInit ==
    /\ pc = "engine"
    /\ MainUnused
    /\ CursorIdle
    /\ jobQueue = <<>>
    /\ quit = FALSE
    /\ workerState = <<>>
    /\ runLog = [j \in JobIds |-> <<>>]
    /\ submitLog = <<>>
    /\ stopState = "new"

mainVars == <<pc, versionFlag, failOn, outputFormat, gitInstalled, trivyInstalled,
              absOK, pathExists, idx, ran, allIssues, bar, stdout, stderr, reports,
              gateResult, exitCode, fs, complexityStore, ctxDone, job, fileResult>>

\* Engine.Start: one goroutine per worker
EngineStart ==
    /\ stopState = "new"
    /\ workerState' = [w \in WorkerIds |-> IdleWorker]
    /\ stopState' = "started"
    /\ UNCHANGED <<mainVars, cursorVars, jobQueue, quit, runLog, submitLog>>

\* SubmitJob as a plain send on the channel, which waits while the buffer is full
EngineSubmit_blocking ==
    /\ Len(submitLog) < MaxJobs
    /\ Len(jobQueue) < QueueCap
    /\ jobQueue' = Append(jobQueue, Len(submitLog) + 1)
    /\ submitLog' = Append(submitLog, [job |-> Len(submitLog) + 1, met |-> Len(jobQueue),
                                       accepted |-> TRUE, when |-> stopState])
    /\ UNCHANGED <<mainVars, cursorVars, quit, workerState, runLog, stopState>>

\* Engine.SubmitJob: the send if the buffer has room, the default case if not
EngineSubmit ==
    /\ Len(submitLog) < MaxJobs
    /\ jobQueue' = IF Len(jobQueue) < QueueCap
                   THEN Append(jobQueue, Len(submitLog) + 1)
                   ELSE jobQueue
    /\ submitLog' = Append(submitLog, [job |-> Len(submitLog) + 1, met |-> Len(jobQueue),
                                       accepted |-> Len(jobQueue) < QueueCap,
                                       when |-> stopState])
    /\ UNCHANGED <<mainVars, cursorVars, quit, workerState, runLog, stopState>>

\* Engine.Stop: close(e.quit), then e.wg.Wait()
EngineStop ==
    /\ stopState = "started"
    /\ quit' = TRUE
    /\ stopState' = "stopping"
    /\ UNCHANGED <<mainVars, cursorVars, jobQueue, workerState, runLog, submitLog>>

\* e.wg.Wait() returns once every worker has returned
EngineStopped ==
    /\ stopState = "stopping"
    /\ \A w \in WorkerIds : workerState[w].pc = "stopped"
    /\ stopState' = "stopped"
    /\ UNCHANGED <<mainVars, cursorVars, jobQueue, quit, workerState, runLog, submitLog>>

Logged(j, event) == [runLog EXCEPT ![j] = Append(@, event)]

\* worker: the select takes the case job := <-e.jobQueue
WorkerTake(w) ==
    /\ stopState # "new"
    /\ workerState[w].pc = "select"
    /\ jobQueue # <<>>
    /\ jobQueue' = Tail(jobQueue)
    /\ workerState' = [workerState EXCEPT ![w] = [pc |-> "running", job |-> Head(jobQueue), i |-> 0]]
    /\ runLog' = Logged(Head(jobQueue), "taken")
    /\ UNCHANGED <<mainVars, cursorVars, quit, submitLog, stopState>>

\* worker: the select takes the case <-e.quit and the worker returns
WorkerQuit(w) ==
    /\ stopState # "new"
    /\ workerState[w].pc = "select"
    /\ quit
    /\ workerState' = [workerState EXCEPT ![w].pc = "stopped"]
    /\ UNCHANGED <<mainVars, cursorVars, jobQueue, quit, runLog, submitLog, stopState>>

\* processJob: UpdateStatus(running), and the return when it fails
WorkerRunning(w) ==
    /\ stopState # "new"
    /\ workerState[w].pc = "running"
    /\ \E outcome \in UpdateOutcomes :
          IF outcome = "ok"
          THEN /\ runLog' = Logged(workerState[w].job, "running")
               /\ workerState' = [workerState EXCEPT ![w].pc = "clone"]
          ELSE /\ runLog' = Logged(workerState[w].job, "running_error")
               /\ workerState' = [workerState EXCEPT ![w] = IdleWorker]
    /\ UNCHANGED <<mainVars, cursorVars, jobQueue, quit, submitLog, stopState>>

\* processJob going on to the analyzers after a failed clone
WorkerClone_goesOn(w) ==
    /\ stopState # "new"
    /\ workerState[w].pc = "clone"
    /\ \E cloned \in BOOLEAN, outcome \in UpdateOutcomes :
          IF cloned
          THEN /\ outcome = "ok"
               /\ runLog' = Logged(workerState[w].job, "cloned")
               /\ workerState' = [workerState EXCEPT ![w].pc = "analyze", ![w].i = 1]
          ELSE /\ runLog' = [runLog EXCEPT ![workerState[w].job] =
                                @ \o <<"clone_error",
                                       IF outcome = "ok" THEN "failed" ELSE "failed_error">>]
               /\ workerState' = [workerState EXCEPT ![w].pc = "analyze", ![w].i = 1]
    /\ UNCHANGED <<mainVars, cursorVars, jobQueue, quit, submitLog, stopState>>

\* processJob: the clone; on failure UpdateStatus(failed), whose error is
\* dropped, and the return; on success the language and config detection,
\* which touch the repository store only
WorkerClone(w) ==
    /\ stopState # "new"
    /\ workerState[w].pc = "clone"
    /\ \E cloned \in BOOLEAN, outcome \in UpdateOutcomes :
          IF cloned
          THEN /\ outcome = "ok"
               /\ runLog' = Logged(workerState[w].job, "cloned")
               /\ workerState' = [workerState EXCEPT ![w].pc = "analyze", ![w].i = 1]
          ELSE /\ runLog' = [runLog EXCEPT ![workerState[w].job] =
                                @ \o <<"clone_error",
                                       IF outcome = "ok" THEN "failed" ELSE "failed_error">>]
               /\ workerState' = [workerState EXCEPT ![w] = IdleWorker]
    /\ UNCHANGED <<mainVars, cursorVars, jobQueue, quit, submitLog, stopState>>

\* processJob: one iteration of the loop over e.analyzers; an analyzer's
\* error is logged and the loop goes on
WorkerAnalyze(w) ==
    /\ stopState # "new"
    /\ workerState[w].pc = "analyze"
    /\ runLog' = Logged(workerState[w].job, "analyzed")
    /\ workerState' = [workerState EXCEPT
                          ![w].i = @ + 1,
                          ![w].pc = IF workerState[w].i = Len(EngineAnalyzers)
                                    THEN "complete" ELSE "analyze"]
    /\ UNCHANGED <<mainVars, cursorVars, jobQueue, quit, submitLog, stopState>>

\* processJob: the issues saved, UpdateStatus(completed), the repository
\* metrics and the snapshot; then the worker is back at its select
WorkerComplete(w) ==
    /\ stopState # "new"
    /\ workerState[w].pc = "complete"
    /\ \E outcome \in UpdateOutcomes :
          runLog' = Logged(workerState[w].job,
                           IF outcome = "ok" THEN "completed" ELSE "completed_error")
    /\ workerState' = [workerState EXCEPT ![w] = IdleWorker]
    /\ UNCHANGED <<mainVars, cursorVars, jobQueue, quit, submitLog, stopState>>

EngineNext ==
    \/ EngineStart
    \/ EngineSubmit
    \/ EngineStop
    \/ EngineStopped
    \/ \E w \in WorkerIds : WorkerTake(w)
    \/ \E w \in WorkerIds : WorkerQuit(w)
    \/ \E w \in WorkerIds : WorkerRunning(w)
    \/ \E w \in WorkerIds : WorkerClone(w)
    \/ \E w \in WorkerIds : WorkerAnalyze(w)
    \/ \E w \in WorkerIds : WorkerComplete(w)

SpecEngine == EngineInit /\ [][EngineNext]_vars

(***************************************************************************)
(* Claims                                                                  *)
(***************************************************************************)
RankedThresholds == {"info", "low", "medium", "high", "critical"}

\* the ranks the quality gate is specified with
ClaimRank(sv) ==
    CASE sv = "info" -> 0
      [] sv = "low" -> 1
      [] sv = "medium" -> 2
      [] sv = "high" -> 3
      [] sv = "critical" -> 4

SomeIssueReaches(issues, rank) ==
    \E i \in 1..Len(issues) :
        /\ issues[i].Severity \in RankedThresholds
        /\ ClaimRank(issues[i].Severity) >= rank

Wrote(stream, m) == \E i \in 1..Len(stream) : stream[i].msg = m

\* C1: for a threshold among info, low, medium, high, critical and any issue
\* list, the gate fails exactly when some issue has a rank at or above the
\* threshold's rank.
C1_GateFailsIffRankReached ==
    (pc = "exited" /\ gateResult # "unset" /\ failOn \in RankedThresholds)
        => ((gateResult = "fail") <=> SomeIssueReaches(allIssues, ClaimRank(failOn)))

C1_Witness ==
    /\ pc = "exited"
    /\ failOn = "medium"
    /\ gateResult = "fail"
    /\ Len(allIssues) = 3
    /\ allIssues[1].Severity = "low"
    /\ allIssues[2].Severity = "unknown"
    /\ allIssues[3].Severity = "medium"

\* C2: a failing gate writes the "Quality Gate failed" message to the error
\* stream and the process exits with code 1; a passing gate exits with code 0.
C2_GateDecidesExit ==
    (pc = "exited" /\ gateResult # "unset")
        => /\ gateResult = "fail" =>
                /\ exitCode = 1
                /\ Len(stderr) > 0
                /\ stderr[Len(stderr)].msg = "gate_failed"
                /\ ~Wrote(stdout, "gate_failed")
           /\ gateResult = "pass" =>
                /\ exitCode = 0
                /\ ~Wrote(stderr, "gate_failed")
                /\ ~Wrote(stdout, "gate_failed")

C2_Witness ==
    /\ pc = "exited"
    /\ gateResult = "fail"
    /\ exitCode = 1
    /\ outputFormat = "json"
    /\ Len(allIssues) >= 2

\* C3: with the threshold "none" the gate passes whatever the issues are, and
\* the process exits with code 0.
C3_NoneNeverFails ==
    (failOn = "none" /\ gateResult # "unset")
        => (gateResult = "pass" /\ exitCode = 0)

C3_Witness ==
    /\ failOn = "none"
    /\ pc = "exited"
    /\ gateResult = "pass"
    /\ exitCode = 0
    /\ Len(allIssues) >= 3
    /\ \E i \in 1..Len(allIssues) : allIssues[i].Severity = "critical"

\* the severity cascade over cyclomatic, cognitive and nesting alone
ClaimCascade(c, k, n) ==
    IF c > 20 \/ k > 25 \/ n > 5 THEN "critical"
    ELSE IF c > 15 \/ k > 20 \/ n > 4 THEN "high"
    ELSE IF c > 10 \/ k > 15 \/ n > 3 THEN "medium"
    ELSE "low"

\* C4: every metric a language analyzer emits has the severity the cascade
\* gives its cyclomatic, cognitive and nesting values; the parameter count
\* plays no part.
C4_SeverityIsCascade ==
    fileResult.done =>
        \A i \in 1..Len(fileResult.metrics) :
            LET m == fileResult.metrics[i]
            IN m.Severity = ClaimCascade(m.CyclomaticComplexity, m.CognitiveComplexity,
                                         m.NestingDepth)

\* C5: every issue the converter produces comes from a metric of severity
\* high or critical, and no metric of severity low or medium yields an issue.
C5_IssuesOnlyFromHighOrCritical ==
    (pc = "walked" /\ ~ran[1].err) =>
        LET issues == ran[1].Issues
            ms == complexityStore
        IN /\ \A i \in 1..Len(issues) :
                /\ issues[i].Severity \in {"high", "critical"}
                /\ \E j \in 1..Len(ms) :
                      /\ ms[j].FilePath = issues[i].FilePath
                      /\ ms[j].StartLine = issues[i].LineNumber
                      /\ ms[j].Severity = issues[i].Severity
           /\ Len(issues) =
                Cardinality({j \in 1..Len(ms) : ms[j].Severity \in {"high", "critical"}})

C5_Witness ==
    /\ pc = "walked"
    /\ Len(ran[1].Issues) >= 1
    /\ \E j \in 1..Len(complexityStore) : complexityStore[j].Severity = "medium"
    /\ \E j \in 1..Len(complexityStore) : complexityStore[j].Severity = "low"

ClaimPrunedNames == {".git", "node_modules", "vendor", "venv", ".venv", "__pycache__"}

UnderPruned(filePath) ==
    \E k \in 1..(Len(filePath) - 1) : filePath[k] \in ClaimPrunedNames

\* C6: no file below a directory named .git, node_modules, vendor, venv,
\* .venv or __pycache__, at any depth under the root, contributes a metric
\* (or an issue) to the walker's result.
C6_PrunedNeverContribute ==
    /\ \A j \in 1..Len(complexityStore) : ~UnderPruned(complexityStore[j].FilePath)
    /\ \A r \in 1..Len(ran) : \A i \in 1..Len(ran[r].Issues) :
          ran[r].Issues[i].ToolName = "complexity_analyzer"
              => ~UnderPruned(ran[r].Issues[i].FilePath)

\* a pruned directory two levels down holding a function that would be critical,
\* next to files that do contribute
C6_Witness ==
    /\ pc = "walked"
    /\ Len(complexityStore) >= 2
    /\ \E d1 \in fs.children :
          /\ d1.kind = "dir" /\ d1.name = "src"
          /\ \E d2 \in d1.children :
                /\ d2.kind = "dir" /\ d2.name = ".venv" /\ ~d2.ioErr
                /\ \E f \in d2.children : f.content = DirtyContent

\* the tree with every unparsable file replaced by a parsable file without functions
RECURSIVE Heal(_)
Heal(entry) ==
    [entry EXCEPT
        !.content = IF entry.content.parse = "fail" THEN NoContent ELSE @,
        !.children = {Heal(c) : c \in entry.children}]

\* C7: a file that fails to parse leaves the metrics of the other files as
\* they are: the walk goes on past it and the result is the one the same tree
\* gives with the failing file contributing nothing.
C7_ParseFailureIsolated ==
    pc = "walked" =>
        \E healed \in {ComplexityAnalyze(Heal(fs), <<>>)} :
           /\ complexityStore = healed.store
           /\ ran[1].Issues = healed.Issues
           /\ ran[1].err = healed.err

C7_Witness ==
    /\ pc = "walked"
    /\ Wrote(stderr, "analyze_failed")
    /\ \E f \in fs.children : f.kind = "file" /\ f.content.parse = "fail"
    /\ Len(complexityStore) >= 1
    /\ Len(ran[1].Issues) >= 1

\* C8: when a file's content fails to parse, AnalyzeFile returns no metrics
\* and no error, in every language analyzer.
C8_ParseFailureIsEmptyNoError ==
    (fileResult.done /\ job.content.parse = "fail")
        => (fileResult.metrics = <<>> /\ ~fileResult.err)

\* the issues of the analyzers that returned no error, in the order they ran
RECURSIVE SucceededIssues(_)
SucceededIssues(runs) ==
    IF runs = <<>> THEN <<>>
    ELSE (IF Head(runs).err THEN <<>> ELSE Head(runs).Issues)
         \o SucceededIssues(Tail(runs))

\* the issues a report on standard output lists
ReportedIssues(out) == Concat([i \in 1..Len(out) |-> out[i].issues])

ClaimGateFails(issues, threshold) ==
    /\ threshold # "none"
    /\ SomeIssueReaches(issues, IF threshold \in RankedThresholds
                                THEN ClaimRank(threshold) ELSE 3)

\* C9: an analyzer that returns an error does not end the run: all three
\* analyzers are run, and the issues of those that succeeded are the ones
\* reported and the ones the gate decides on.
C9_AnalyzerErrorsAbsorbed ==
    /\ (pc = "exited" /\ Len(ran) > 0) => reports = 1
    /\ (pc \in {"report", "gate"} \/ (pc = "exited" /\ reports = 1)) =>
          /\ Len(ran) = Len(analyzersList)
          /\ \A i \in 1..Len(ran) : ran[i].name = analyzersList[i]
          /\ allIssues = SucceededIssues(ran)
          /\ reports = 1 => ReportedIssues(stdout) = SucceededIssues(ran)
          /\ gateResult # "unset" =>
                ((gateResult = "fail") <=> ClaimGateFails(SucceededIssues(ran), failOn))

C9_Witness ==
    /\ pc = "exited"
    /\ reports = 1
    /\ Len(ran) = 3
    /\ ran[1].err
    /\ ran[2].err
    /\ ~ran[3].err
    /\ Len(ran[3].Issues) >= 1
    /\ ReportedIssues(stdout) = ran[3].Issues
    /\ gateResult = "fail"

Aborted == pc = "exited" /\ reports = 0 /\ ~versionFlag

\* C10 as claimed: the run ends before a report is produced only when the
\* target path cannot be resolved.
C10_OnlyResolutionAborts ==
    Aborted => (~absOK \/ ~pathExists)

\* C10 amended: the run ends before a report is produced only when the git
\* executable is missing or the target path cannot be resolved or opened, and
\* then with exit code 1; no analyzer error ends it.
C10_OnlyGitOrResolutionAborts ==
    /\ Aborted => (exitCode = 1 /\ (~gitInstalled \/ ~absOK \/ ~pathExists))
    /\ (pc = "exited" /\ Len(ran) > 0) => reports = 1

C10_Witness ==
    /\ Aborted
    /\ ~gitInstalled
    /\ absOK
    /\ pathExists
    /\ exitCode = 1
    /\ Wrote(stderr, "git_missing")

\* the issues an analyzer run added to the list: none when it returned an error
Contribution(run) == IF run.err THEN <<>> ELSE run.Issues

\* C11: the issue list handed to the report and to the gate is the line
\* counter's issues, then the complexity analyzer's, then the security
\* scanner's, each in the order the analyzer returned them.
C11_IssuesConcatenatedInAnalyzerOrder ==
    (pc \in {"report", "gate"} \/ (pc = "exited" /\ reports = 1)) =>
        /\ Len(ran) = 3
        /\ ran[1].name = "LineCounter"
        /\ ran[2].name = "ComplexityAnalyzer"
        /\ ran[3].name = "Trivy Security Scanner"
        /\ allIssues = Contribution(ran[1]) \o Contribution(ran[2]) \o Contribution(ran[3])
        /\ reports = 1 => ReportedIssues(stdout) = allIssues

\* both the complexity analyzer and the security scanner contributed
C11_Witness ==
    /\ pc = "exited"
    /\ reports = 1
    /\ Len(ran) = 3
    /\ ~ran[2].err /\ Len(ran[2].Issues) >= 1
    /\ ~ran[3].err /\ Len(ran[3].Issues) >= 1
    /\ allIssues[1].ToolName = "complexity_analyzer"
    /\ allIssues[Len(allIssues)].ToolName = "trivy"

\* C12: whatever the output mode, the only thing written to standard output
\* is the JSON report; the text report and every other message go to the
\* error stream.
C12_StdoutOnlyJSON ==
    \A i \in 1..Len(stdout) : stdout[i].msg = "json"

\* C13: once cancellation is requested the analysis stops at the next file
\* boundary: a walk started under a cancelled context analyzes no file and
\* ends with an error, so that no report is built from it.
C13_CancelStopsAtFileBoundary ==
    (pc = "walked" /\ ctxDone) =>
        /\ complexityStore = <<>>
        /\ \A r \in 1..Len(ran) : ran[r].err /\ ran[r].Issues = <<>>

\* a metric without the identifier Analyze tags it with
MetricFields(m) == [f \in DOMAIN m \ {"ID"} |-> m[f]]

\* the same records the same number of times, in whatever order
SameMetrics(a, b) ==
    /\ Len(a) = Len(b)
    /\ \A i \in 1..Len(a) :
          Cardinality({j \in 1..Len(a) : MetricFields(a[j]) = MetricFields(a[i])})
          = Cardinality({j \in 1..Len(b) : MetricFields(b[j]) = MetricFields(a[i])})

C15_DebtAtLeastFive ==
    fileResult.done =>
        \A i \in 1..Len(fileResult.metrics) :
            fileResult.metrics[i].TechnicalDebtMinutes >= 5

\* C16: with everything else held fixed, a function that gains a decision
\* point, a cognitive point or a line never has fewer debt minutes than before.
C16_DebtMonotone ==
    [][(pc = "filed" /\ pc' = "refiled" /\ Len(fileResult.metrics) = 1
            /\ Len(fileResult'.metrics) = 1)
        => fileResult'.metrics[1].TechnicalDebtMinutes
             >= fileResult.metrics[1].TechnicalDebtMinutes]_vars

\* C17: every emitted metric has lines_of_code = end_line - start_line + 1.
C17_LinesOfCodeFromLines ==
    fileResult.done =>
        \A i \in 1..Len(fileResult.metrics) :
            LET m == fileResult.metrics[i]
            IN m.LinesOfCode = m.EndLine - m.StartLine + 1

\* C18: analyzing a zero-byte file of any supported language gives no metrics
\* and no error.
C18_EmptyFileNoMetricsNoError ==
    (fileResult.done /\ job.content = EmptyFile)
        => (fileResult.metrics = <<>> /\ ~fileResult.err)

\* a body of exactly one straight-line statement: no branch, loop, logical
\* operator or exception handler
StraightLine(b) ==
    /\ b.ifs = 0 /\ b.elses = 0 /\ b.loops = 0 /\ b.switches = 0 /\ b.cases = 0
    /\ b.tries = 0 /\ b.catches = 0 /\ b.logic = 0 /\ b.depth = 0

\* C19: a function whose body is one straight-line statement measures
\* cyclomatic 1, cognitive 0 and nesting 0 in every language analyzer.
C19_StraightLineIsMinimal ==
    (pc = "measured" /\ StraightLine(job.body))
        => (/\ fileResult.cyclomatic = 1
            /\ fileResult.cognitive = 0
            /\ fileResult.nesting = 0)

\* the nesting-capable constructs of a body: conditionals, loops, switch
\* entries and try/catch statements
ClaimConstructs(b) == b.ifs + b.loops + b.cases + b.tries

\* C20: in every language analyzer the cognitive complexity of a function is
\* two per nesting-capable construct plus one per short-circuit logical
\* operator, starting from 0.
C20_CognitiveIsTwoPerConstruct ==
    pc = "measured"
        => fileResult.cognitive = 2 * ClaimConstructs(job.body) + job.body.logic

\* the files of a tree that lie under no directory of a pruned name
RECURSIVE KeptFiles(_)
RECURSIVE KeptOf(_)
KeptFiles(entry) ==
    IF entry.kind = "file" THEN <<entry>>
    ELSE IF entry.name \in ClaimPrunedNames THEN <<>>
    ELSE KeptOf(SortByName(entry.children))

KeptOf(entries) ==
    IF entries = <<>> THEN <<>>
    ELSE KeptFiles(Head(entries)) \o KeptOf(Tail(entries))

RECURSIVE SumNewlines(_)
SumNewlines(files) ==
    IF files = <<>> THEN 0
    ELSE Head(files).content.newlines + SumNewlines(Tail(files))

\* C21: the line counter counts no file that lies under a directory named
\* .git, node_modules, vendor, venv, .venv or __pycache__: file_count and loc
\* are at most what the files outside those directories amount to.
C21_LineCounterPrunesLikeWalker ==
    \A r \in 1..Len(ran) :
        (ran[r].name = "LineCounter" /\ ~ran[r].err)
            => \E kept \in {KeptFiles(fs)} :
                  /\ ran[r].file_count <= Len(kept)
                  /\ ran[r].loc <= SumNewlines(kept)

\* the closing line the claim names for a passed gate
ClaimClosingLine(issues) ==
    IF Len(issues) = 0 THEN Msg("scan_passed", 0, <<>>)
    ELSE Msg("scan_completed", Len(issues), <<>>)

\* C22 as stated: whenever the gate passes, the last thing on the error stream
\* is the no-issues line for an empty issue list and the line with the number
\* of issues otherwise.
C22_PassEndsWithScanLine ==
    (pc = "exited" /\ gateResult = "pass")
        => (Len(stderr) > 0 /\ stderr[Len(stderr)] = ClaimClosingLine(allIssues))

\* C22: whenever the gate passes in a run with --output text, the last thing
\* on the error stream is the no-issues line for an empty issue list and the
\* line with the number of issues otherwise.
C22_TextPassEndsWithScanLine ==
    (pc = "exited" /\ gateResult = "pass" /\ outputFormat = "text")
        => (Len(stderr) > 0 /\ stderr[Len(stderr)] = ClaimClosingLine(allIssues))

C22_Witness ==
    /\ pc = "exited"
    /\ gateResult = "pass"
    /\ outputFormat = "text"
    /\ Len(allIssues) >= 2
    /\ stderr[Len(stderr)].msg = "scan_completed"
    /\ stderr[Len(stderr)].n = Len(allIssues)

\* C23: with a threshold that is none of info, low, medium, high, critical,
\* none, the gate fails exactly when some issue has a severity of rank 3
\* ("high") or above.
C23_UnknownThresholdIsHigh ==
    (pc = "exited" /\ gateResult # "unset"
        /\ failOn \notin RankedThresholds \cup {"none"})
        => ((gateResult = "fail") <=> SomeIssueReaches(allIssues, 3))

\* an unknown threshold passing a medium issue and failing on the high one
C23_Witness ==
    /\ pc = "exited"
    /\ failOn = "bogus"
    /\ gateResult = "fail"
    /\ Len(allIssues) = 2
    /\ allIssues[1].Severity = "medium"
    /\ allIssues[2].Severity = "high"

\* the nodes of the subtree below and including a node, in pre-order
SubtreeEnd(d, start) ==
    LET after == {j \in (start + 1)..Len(d) : d[j] <= d[start]}
    IN IF after = {} THEN Len(d)
       ELSE (CHOOSE j \in after : \A o \in after : j <= o) - 1

PreOrder(d, start) ==
    [i \in 1..(SubtreeEnd(d, start) - start + 1) |-> start + i - 1]

\* C24: the traversal visits the nodes of the subtree of its start node in
\* pre-order, each once and no other node, and it ends exactly when the whole
\* subtree has been visited.
C24_TraversalCoversSubtreeOnce ==
    pc = "traverse" =>
        \E want \in {PreOrder(ast.depths, ast.root)} :
            /\ Len(cursor.visited) <= Len(want)
            /\ cursor.visited = SubSeq(want, 1, Len(cursor.visited))
            /\ cursor.done <=> cursor.visited = want

\* a finished traversal from a node that has a parent and a later sibling:
\* the cursor climbed from a grandchild to the next child, and at the last
\* child the climb ended at the start node without moving on to its sibling
C24_Witness ==
    /\ pc = "traverse"
    /\ cursor.done
    /\ ast.depths = <<0, 1, 2, 3, 2, 1>>
    /\ ast.root = 2
    /\ cursor.visited = <<2, 3, 4, 5>>

\* C25: a run that got past path resolution ends with the report emitted
\* exactly once and the gate decided; and when the gate decides, the complete
\* report is already written: the step that prints the failure message and
\* sets exit code 1 adds nothing to the report.
C25_ReportOnceBeforeGate ==
    /\ []((pc = "exited" /\ idx >= 1)
            => (/\ reports = 1
                /\ gateResult # "unset"
                /\ stdout = printReport(allIssues, outputFormat)))
    /\ [][(gateResult = "unset" /\ gateResult' # "unset")
            => (/\ reports = 1
                /\ stdout = printReport(allIssues, outputFormat)
                /\ stdout' = stdout
                /\ reports' = reports
                /\ gateResult' = "fail"
                     => (/\ exitCode' = 1
                         /\ stderr' = Append(stderr, Msg("gate_failed", 0, <<>>))))]_vars

\* a failed gate after a report of several issues
C25_Witness ==
    /\ pc = "exited"
    /\ idx >= 1
    /\ gateResult = "fail"
    /\ exitCode = 1
    /\ reports = 1
    /\ Len(allIssues) >= 2
    /\ outputFormat = "text"
    /\ Len(stdout) = Len(allIssues) + 1
    /\ stderr[Len(stderr)].msg = "gate_failed"

\* what identifies a metric and the issue made of it
MetricKey(m) == [FilePath |-> m.FilePath, Line |-> m.StartLine, Severity |-> m.Severity]
IssueKey(i) == [FilePath |-> i.FilePath, Line |-> i.LineNumber, Severity |-> i.Severity]

IsQualifying(m) == m.Severity \in {"high", "critical"}

QualifyingKeys(metrics) ==
    LET q == SelectSeq(metrics, IsQualifying)
    IN [i \in 1..Len(q) |-> MetricKey(q[i])]

\* C26: the issues Analyze returns are, one for one and in the same order,
\* the metrics of severity high or critical that the walk computed, on
\* every return path.
C26_QualifyingMetricsAllReturned ==
    pc = "walked" =>
        \E w \in {Walk("complexity", fs, EmptyAcc)} :
            [i \in 1..Len(ran[1].Issues) |-> IssueKey(ran[1].Issues[i])]
                = QualifyingKeys(w.acc.metrics)

\* C27: every issue the quality gate is given has a severity among info, low,
\* medium, high and critical, so the gate's rank lookup finds every issue.
C27_GateIssuesAreRanked ==
    pc \in {"gate", "exited"} =>
        \A i \in 1..Len(allIssues) : allIssues[i].Severity \in DOMAIN severityMap

\* a gate given a complexity issue and a Trivy finding of an unlisted
\* severity, which arrives as info
C27_Witness ==
    /\ pc = "exited"
    /\ gateResult # "unset"
    /\ \E i \in 1..Len(allIssues) :
          allIssues[i].ToolName = "complexity_analyzer"
    /\ \E i \in 1..Len(allIssues) :
          allIssues[i].ToolName = "trivy" /\ allIssues[i].Severity = "info"

\* the jobs SubmitJob put into the queue before Stop was called
AcceptedBeforeStop ==
    {submitLog[k].job : k \in {n \in 1..Len(submitLog) :
        submitLog[n].accepted /\ submitLog[n].when \in {"new", "started"}}}

TimesTaken(j) == Len(SelectSeq(runLog[j], LAMBDA e : e = "taken"))

\* C28: when Stop has returned, every job the queue accepted has been taken
\* and processed by a worker, exactly once.
C28_AcceptedJobsProcessedOnce ==
    (pc = "engine" /\ stopState = "stopped")
        => \A j \in AcceptedBeforeStop : TimesTaken(j) = 1


\* the worker has returned from processJob for job j
Processed(j) ==
    /\ runLog[j] # <<>>
    /\ \A w \in DOMAIN workerState : workerState[w].job # j

TerminalWrites(j) == SelectSeq(runLog[j], LAMBDA e : e \in {"failed", "completed"})

Has(j, event) == \E k \in 1..Len(runLog[j]) : runLog[j][k] = event

AnalyzedBefore(j, k) == Cardinality({m \in 1..(k - 1) : runLog[j][m] = "analyzed"})

\* running is written before the clone and the analyzers
RunningComesFirst(j) ==
    \A k \in 1..Len(runLog[j]) :
        runLog[j][k] \in {"cloned", "clone_error", "analyzed"}
            => \E m \in 1..(k - 1) : runLog[j][m] = "running"

\* completed is written only after every analyzer of the list has run
CompletedAfterAnalyzers(j) ==
    \A k \in 1..Len(runLog[j]) :
        runLog[j][k] = "completed" => AnalyzedBefore(j, k) = Len(EngineAnalyzers)

\* failed after a failed clone, completed otherwise, and nothing else
OneTerminalStatus(j) ==
    TerminalWrites(j) = IF Has(j, "clone_error") THEN <<"failed">> ELSE <<"completed">>

UpdateFailed(j) ==
    Has(j, "running_error") \/ Has(j, "failed_error") \/ Has(j, "completed_error")

Dropped == {submitLog[k].job : k \in {n \in 1..Len(submitLog) : ~submitLog[n].accepted}}

InQueue(j) == \E k \in 1..Len(jobQueue) : jobQueue[k] = j

\* C30: SubmitJob can always complete, whatever the queue holds; a call is
\* dropped exactly when it met a full queue; a dropped job is never queued,
\* never taken by a worker and never gets a status written.
C30_SubmitNeverBlocks ==
    pc = "engine" =>
        /\ Len(submitLog) < MaxJobs => ENABLED EngineSubmit
        /\ Len(jobQueue) <= QueueCap
        /\ \A k \in 1..Len(submitLog) :
              submitLog[k].accepted <=> submitLog[k].met < QueueCap
        /\ \A j \in Dropped :
              /\ runLog[j] = <<>>
              /\ ~InQueue(j)
              /\ \A w \in DOMAIN workerState : workerState[w].job # j

C30_Witness ==
    /\ pc = "engine"
    /\ stopState = "stopped"
    /\ jobQueue = <<>>
    /\ Dropped = {MaxJobs}
    /\ submitLog[MaxJobs].met = QueueCap
    /\ \A j \in JobIds \ Dropped : Has(j, "completed")

====
